---- MODULE Spec2Model ----
(***************************************************************************)
(* Model of server.js: the in-memory cart registry (carts), the catalog    *)
(* store (Product), the order store (prisma.order) and the HTTP handlers   *)
(* that work on them.                                                      *)
(*                                                                         *)
(* Node runs a handler to completion until it returns or reaches an await, *)
(* so a synchronous handler is one action and an async handler is one      *)
(* action per segment between awaits.  The store's own work on a query or  *)
(* a write is a separate action, so that other requests can be handled     *)
(* while a checkout awaits.                                                *)
(*                                                                         *)
(* JavaScript arrays and objects are references.  arrs and objs are the    *)
(* heap: an array is a sequence of references to entry objects, carts      *)
(* maps a user id to a reference to an array (0 is undefined).             *)
(***************************************************************************)
EXTENDS Integers, Sequences, FiniteSets, TLC

\* ---------------------------------------------------------------- bounds
MaxReqs == 3      \* requests that reach a handler's state-changing lines
MaxProcs == 2     \* checkout requests that get past the empty-cart test

UserIds == {"u1", "a1"}
UserSeq == <<"u1", "a1">>
ProductIds == {"p1", "p2"}
Quantities == {0, 1, 2}
Prices == {1, 2}
NoProduct == 0 - 1     \* findById resolved with null
Procs == 1..MaxProcs

\* ---------------------------------------------------------------- tokens
\* A token is absent, malformed (a payload whose signature does not verify),
\* expired, or a valid signature over {id, role} (line 60).
NoUser == [id |-> "", role |-> ""]
Tokens ==
  {[kind |-> "none", id |-> "", role |-> ""],
   [kind |-> "malformed", id |-> "a1", role |-> "admin"],
   [kind |-> "expired", id |-> "u1", role |-> "customer"],
   [kind |-> "valid", id |-> "u1", role |-> "customer"],
   [kind |-> "valid", id |-> "a1", role |-> "admin"]}

\* authenticate with jwt.decode for jwt.verify: the payload of any token
\* that is present is taken as the user.
authenticateNoVerify(token) ==
  IF token.kind = "none" THEN NoUser
  ELSE [id |-> token.id, role |-> token.role]

\* authenticate: the decoded user, or NoUser when the middleware answers 401.
authenticate(token) ==
  IF token.kind = "none" THEN NoUser
  ELSE IF token.kind = "valid" THEN [id |-> token.id, role |-> token.role]
  ELSE NoUser

VARIABLES
  catalog,   \* Product collection: product id -> price, or NoProduct
  carts,     \* carts: user id -> array reference, 0 when undefined
  arrs,      \* heap of arrays: reference -> sequence of object references
  objs,      \* heap of entry objects: reference -> [productId, quantity]
  procs,     \* the checkout requests: locals and position of each
  orders,    \* Order store: the orders written, in order of creation
  last,      \* the response sent by the step taken last (status 0: none)
  ledger,    \* history: per user and product, the adds since the last remove
  reqs       \* history: the number of requests counted by MaxReqs

vars == <<catalog, carts, arrs, objs, procs, orders, last, ledger, reqs>>

\* ---------------------------------------------------------------- helpers
Min(S) == CHOOSE x \in S : \A y \in S : x <= y

RECURSIVE SumItems(_)
SumItems(s) ==
  IF s = <<>> THEN 0
  ELSE Head(s).quantity * Head(s).priceAtPurchase + SumItems(Tail(s))

\* The entries of an array, by value.
Entries(a) == [i \in 1..Len(arrs[a]) |-> objs[arrs[a][i]]]

\* carts[userId] || []
CartOf(u) == IF carts[u] = 0 THEN <<>> ELSE Entries(carts[u])

\* Find with a predicate that matches no entry.
FindNothing(a, p) == 0

\* Array.prototype.find(i => i.productId === productId): the reference of the
\* first match in array a, 0 when there is none.
Find(a, p) ==
  LET S == {i \in 1..Len(arrs[a]) : objs[arrs[a][i]].productId = p}
  IN IF S = {} THEN 0 ELSE arrs[a][Min(S)]

\* Filter with === for !==: the entries of the product are the ones kept.
RECURSIVE FilterInverted(_, _)
FilterInverted(s, p) ==
  IF s = <<>> THEN <<>>
  ELSE IF objs[Head(s)].productId = p
       THEN <<Head(s)>> \o FilterInverted(Tail(s), p)
  ELSE FilterInverted(Tail(s), p)

\* Array.prototype.filter(i => i.productId !== productId) on the value of an
\* array: a new sequence of the same references.
RECURSIVE Filter(_, _)
Filter(s, p) ==
  IF s = <<>> THEN <<>>
  ELSE IF objs[Head(s)].productId # p THEN <<Head(s)>> \o Filter(Tail(s), p)
  ELSE Filter(Tail(s), p)

\* A response: its status and which message or resource its body is.
Event(op, st) == [op |-> op, status |-> st]

\* The step sends no response and none of its awaited calls failed.
NoResponse == Event("", 0)

\* A request that reaches the state-changing lines of its handler.
Accept == reqs < MaxReqs /\ reqs' = reqs + 1

NoEntry == [has |-> FALSE, sum |-> 0, removed |-> FALSE]

IdleProc ==
  [pc |-> "idle", user |-> "", cart |-> 0, idx |-> 0, item |-> 0,
   product |-> NoProduct, total |-> 0, items |-> <<>>, order |-> 0,
   read |-> <<>>]

\* ------------------------------------------------------ garbage collection
\* References are not observable, only sharing is.  After every step the
\* arrays and objects no variable can reach are dropped and the rest are
\* renumbered in the order in which carts and the checkouts reach them.
RECURSIVE Dedup(_, _)
Dedup(s, seen) ==
  IF s = <<>> THEN <<>>
  ELSE IF Head(s) = 0 \/ Head(s) \in seen THEN Dedup(Tail(s), seen)
  ELSE <<Head(s)>> \o Dedup(Tail(s), seen \cup {Head(s)})

RECURSIVE Flatten(_)
Flatten(ss) == IF ss = <<>> THEN <<>> ELSE Head(ss) \o Flatten(Tail(ss))

IndexOf(s, r) == IF r = 0 THEN 0 ELSE CHOOSE i \in 1..Len(s) : s[i] = r

Collect(c1, a1, o1, p1) ==
  LET roots == [i \in 1..Len(UserSeq) |-> c1[UserSeq[i]]]
                 \o [c \in Procs |-> p1[c].cart]
      arrOrder == Dedup(roots, {})
      arrs2 == [i \in 1..Len(arrOrder) |-> a1[arrOrder[i]]]
      objOrder == Dedup(Flatten(arrs2), {})
  IN [carts |-> [u \in UserIds |-> IndexOf(arrOrder, c1[u])],
      arrs |-> [i \in 1..Len(arrs2) |->
                  [j \in 1..Len(arrs2[i]) |-> IndexOf(objOrder, arrs2[i][j])]],
      objs |-> [i \in 1..Len(objOrder) |-> o1[objOrder[i]]],
      procs |-> [c \in Procs |->
                  [p1[c] EXCEPT !.cart = IndexOf(arrOrder, @),
                                !.item = IndexOf(objOrder, @)]]]

\* The new values of the heap variables.
Commit(c1, a1, o1, p1) ==
  \E h \in {Collect(c1, a1, o1, p1)} :
  /\ carts' = h.carts
  /\ arrs' = h.arrs
  /\ objs' = h.objs
  /\ procs' = h.procs

\* The catalog store outlives the process: it holds p1 alone, or p1 and p2,
\* when the server starts.  carts is empty at line 94.
InitCatalogs ==
  {[p \in ProductIds |-> IF p = "p1" THEN 1 ELSE NoProduct],
   [p \in ProductIds |-> IF p = "p1" THEN 1 ELSE 2]}

Init ==
  /\ catalog \in InitCatalogs
  /\ carts = [u \in UserIds |-> 0]
  /\ arrs = <<>>
  /\ objs = <<>>
  /\ procs = [c \in Procs |-> IdleProc]
  /\ orders = <<>>
  /\ last = NoResponse
  /\ ledger = [u \in UserIds |-> [p \in ProductIds |-> NoEntry]]
  /\ reqs = 0

\* ---------------------------------------------------------------- cart
\* GET /cart, POST /cart, DELETE /cart/:productId, POST /checkout and the
\* three product mutations run authenticate before their handler.  On any
\* of them authenticate answers 401 (lines 30 and 36) to a token it does not
\* accept, and the route's handler is not called.
Unauthenticated(token) ==
  /\ authenticate(token) = NoUser
  /\ last' = Event("authenticate", 401)
  /\ UNCHANGED <<catalog, carts, arrs, objs, procs, orders, ledger, reqs>>

\* AddEntry with = for += on line 104: the later add overwrites the earlier.
AddEntryOverwrite(u, productId, quantity) ==
  LET a == IF carts[u] = 0 THEN Len(arrs) + 1 ELSE carts[u]
      arrs1 == IF carts[u] = 0 THEN Append(arrs, <<>>) ELSE arrs
      item == IF carts[u] = 0 THEN 0 ELSE Find(a, productId)
  IN
  /\ IF item # 0
     THEN Commit([carts EXCEPT ![u] = a], arrs1,
                 [objs EXCEPT ![item].quantity = quantity], procs)
     ELSE Commit([carts EXCEPT ![u] = a],
                 [arrs1 EXCEPT ![a] = Append(@, Len(objs) + 1)],
                 Append(objs, [productId |-> productId, quantity |-> quantity]),
                 procs)
  /\ ledger' = [ledger EXCEPT ![u][productId] =
                  [@ EXCEPT !.has = TRUE, !.sum = @ + quantity]]

\* POST /cart, lines 101-106, for an authenticated user.
AddEntry(u, productId, quantity) ==
  LET a == IF carts[u] = 0 THEN Len(arrs) + 1 ELSE carts[u]
      arrs1 == IF carts[u] = 0 THEN Append(arrs, <<>>) ELSE arrs
      item == IF carts[u] = 0 THEN 0 ELSE Find(a, productId)
  IN
  /\ IF item # 0
     THEN Commit([carts EXCEPT ![u] = a], arrs1,
                 [objs EXCEPT ![item].quantity = @ + quantity], procs)
     ELSE Commit([carts EXCEPT ![u] = a],
                 [arrs1 EXCEPT ![a] = Append(@, Len(objs) + 1)],
                 Append(objs, [productId |-> productId, quantity |-> quantity]),
                 procs)
  /\ ledger' = [ledger EXCEPT ![u][productId] =
                  [@ EXCEPT !.has = TRUE, !.sum = @ + quantity]]

AddCart(token, productId, quantity) ==
  LET user == authenticate(token) IN
  /\ user # NoUser
  /\ Accept
  /\ AddEntry(user.id, productId, quantity)
  /\ last' = Event("addCart", 200)
  /\ UNCHANGED <<catalog, orders>>

\* RemoveEntry that drops the whole cart: carts[u] = [] for line 110.
RemoveEntryDropsCart(u, productId) ==
  /\ Commit([carts EXCEPT ![u] = Len(arrs) + 1], Append(arrs, <<>>), objs, procs)
  /\ ledger' = [ledger EXCEPT ![u][productId] =
                  [has |-> FALSE, sum |-> 0, removed |-> @.removed \/ @.has]]

\* DELETE /cart/:productId, line 110, for an authenticated user.
RemoveEntry(u, productId) ==
  /\ Commit([carts EXCEPT ![u] = Len(arrs) + 1],
            Append(arrs, IF carts[u] = 0 THEN <<>>
                         ELSE Filter(arrs[carts[u]], productId)),
            objs, procs)
  /\ ledger' = [ledger EXCEPT ![u][productId] =
                  [has |-> FALSE, sum |-> 0, removed |-> @.removed \/ @.has]]

RemoveCart(token, productId) ==
  LET user == authenticate(token) IN
  /\ user # NoUser
  /\ Accept
  /\ RemoveEntry(user.id, productId)
  /\ last' = Event("removeCart", 200)
  /\ UNCHANGED <<catalog, orders>>

\* ---------------------------------------------------------------- products
\* Lines 76-77: the store gives the new document an id no product has.
Create(id, price) ==
  /\ catalog[id] = NoProduct
  /\ catalog' = [catalog EXCEPT ![id] = price]

\* Line 83: findByIdAndUpdate changes nothing and resolves with null for an
\* id that no product has.
FindByIdAndUpdate(id, price) ==
  catalog' = IF catalog[id] = NoProduct THEN catalog
             ELSE [catalog EXCEPT ![id] = price]

\* Line 89.
FindByIdAndDelete(id) == catalog' = [catalog EXCEPT ![id] = NoProduct]

\* POST /products
CreateProduct(token) ==
  LET user == authenticate(token) IN
  /\ user # NoUser
  /\ IF user.role # "admin"
     THEN /\ last' = Event("adminOnly", 403)
          /\ UNCHANGED <<catalog, reqs>>
     ELSE /\ Accept
          /\ \E id \in ProductIds, price \in Prices : Create(id, price)
          /\ last' = Event("createProduct", 200)
  /\ UNCHANGED <<carts, arrs, objs, procs, orders, ledger>>

\* UpdateProduct with order items that follow the product's price: every
\* item of the product updated is re-priced.
UpdateProductRepricing(token) ==
  LET user == authenticate(token)
      Repriced(id, price) ==
        [i \in DOMAIN orders |->
           [orders[i] EXCEPT !.items =
              [j \in DOMAIN orders[i].items |->
                 IF orders[i].items[j].productId = id /\ catalog[id] # NoProduct
                 THEN [orders[i].items[j] EXCEPT !.priceAtPurchase = price]
                 ELSE orders[i].items[j]]]]
  IN
  /\ user # NoUser
  /\ IF user.role # "admin"
     THEN /\ last' = Event("adminOnly", 403)
          /\ UNCHANGED <<catalog, reqs, orders>>
     ELSE /\ Accept
          /\ \E id \in ProductIds, price \in Prices :
               /\ FindByIdAndUpdate(id, price)
               /\ orders' = Repriced(id, price)
               /\ last' = Event(IF catalog[id] = NoProduct THEN "null"
                                ELSE "updateProduct", 200)
  /\ UNCHANGED <<carts, arrs, objs, procs, ledger>>

\* PUT /products/:id: res.json(product) answers 200, with the product or,
\* for an id that no product has, with null.
UpdateProduct(token) ==
  LET user == authenticate(token) IN
  /\ user # NoUser
  /\ IF user.role # "admin"
     THEN /\ last' = Event("adminOnly", 403)
          /\ UNCHANGED <<catalog, reqs>>
     ELSE /\ Accept
          /\ \E id \in ProductIds, price \in Prices :
               /\ FindByIdAndUpdate(id, price)
               /\ last' = Event(IF catalog[id] = NoProduct THEN "null"
                                ELSE "updateProduct", 200)
  /\ UNCHANGED <<carts, arrs, objs, procs, orders, ledger>>

\* DeleteProduct without the role test of line 88.
DeleteProductNoRoleTest(token) ==
  LET user == authenticate(token) IN
  /\ user # NoUser
  /\ Accept
  /\ \E id \in ProductIds : FindByIdAndDelete(id)
  /\ last' = Event("deleteProduct", 200)
  /\ UNCHANGED <<carts, arrs, objs, procs, orders, ledger>>

\* DELETE /products/:id
DeleteProduct(token) ==
  LET user == authenticate(token) IN
  /\ user # NoUser
  /\ IF user.role # "admin"
     THEN /\ last' = Event("adminOnly", 403)
          /\ UNCHANGED <<catalog, reqs>>
     ELSE /\ Accept
          /\ \E id \in ProductIds : FindByIdAndDelete(id)
          /\ last' = Event("deleteProduct", 200)
  /\ UNCHANGED <<carts, arrs, objs, procs, orders, ledger>>

\* ---------------------------------------------------------------- checkout
\* The responses a request can get when its handler's promise rejects: the
\* handler has no try/catch, so the code sends none (0); a router that
\* forwards rejections to its default error handler sends 500.
RejectOutcomes == {0, 500}

\* LoopNext with a test after the loop that fails a checkout with no item.
LoopNextNeedsItem(p) ==
  IF p.idx < Len(arrs[p.cart])
  THEN [p EXCEPT !.item = arrs[p.cart][p.idx + 1], !.idx = @ + 1,
                 !.product = NoProduct, !.pc = "findById"]
  ELSE IF p.items = <<>>
  THEN [IdleProc EXCEPT !.pc = "failed", !.user = p.user]
  ELSE [p EXCEPT !.item = 0, !.idx = 0, !.cart = 0, !.read = <<>>,
                 !.product = NoProduct, !.pc = "create"]

\* for (const item of cart): the array iterator's next() on the array as it
\* is now.  With another element, line 122 starts its lookup; at the end,
\* line 129 starts the order write (cart and item are dead from there on).
\* read is history: the entries the cart held at line 116, kept for the
\* duration of the loop.
LoopNext(p) ==
  IF p.idx < Len(arrs[p.cart])
  THEN [p EXCEPT !.item = arrs[p.cart][p.idx + 1], !.idx = @ + 1,
                 !.product = NoProduct, !.pc = "findById"]
  ELSE [p EXCEPT !.item = 0, !.idx = 0, !.cart = 0, !.read = <<>>,
                 !.product = NoProduct, !.pc = "create"]

\* CheckoutStart without the test of line 117: an empty cart goes on to the
\* order write.
CheckoutStartNoEmptyTest(token) ==
  LET user == authenticate(token)
      cart == carts[user.id]
      c == Min({d \in Procs : procs[d].pc = "idle"})
  IN
  /\ user # NoUser
  /\ \E d \in Procs : procs[d].pc = "idle"
  /\ Accept
  /\ procs' = [procs EXCEPT ![c] =
       IF cart = 0 THEN [IdleProc EXCEPT !.user = user.id, !.pc = "create"]
       ELSE LoopNext([IdleProc EXCEPT !.user = user.id, !.cart = cart,
                                        !.read = Entries(cart)])]
  /\ last' = NoResponse
  /\ UNCHANGED <<catalog, carts, arrs, objs, orders, ledger>>

\* POST /checkout up to the first await: lines 116-122.
CheckoutStart(token) ==
  LET user == authenticate(token)
      cart == carts[user.id]
      c == Min({d \in Procs : procs[d].pc = "idle"})
  IN
  /\ user # NoUser
  /\ IF cart = 0 \/ Len(arrs[cart]) = 0
     THEN /\ last' = Event("checkout", 400)
          /\ UNCHANGED <<catalog, carts, arrs, objs, procs, orders, ledger, reqs>>
     ELSE /\ \E d \in Procs : procs[d].pc = "idle"
          /\ Accept
          /\ procs' = [procs EXCEPT ![c] =
               LoopNext([IdleProc EXCEPT !.user = user.id, !.cart = cart,
                                        !.read = Entries(cart)])]
          /\ last' = NoResponse
          /\ UNCHANGED <<catalog, carts, arrs, objs, orders, ledger>>

\* The catalog store answers Product.findById(item.productId).
FindByIdOk(c) ==
  /\ procs[c].pc = "findById"
  /\ procs' = [procs EXCEPT ![c].pc = "resume",
                            ![c].product = catalog[objs[procs[c].item].productId]]
  /\ last' = NoResponse
  /\ UNCHANGED <<catalog, carts, arrs, objs, orders, ledger, reqs>>

\* Reject with the cart cleared before the awaited call: line 139 moved up.
RejectClearsCart(c, op, st) ==
  /\ Commit([carts EXCEPT ![procs[c].user] = Len(arrs) + 1], Append(arrs, <<>>),
            objs,
            [procs EXCEPT ![c] = [IdleProc EXCEPT !.pc = "failed",
                                   !.user = procs[c].user]])
  /\ last' = Event(op, st)
  /\ UNCHANGED <<catalog, orders, ledger, reqs>>

\* An awaited store call op rejects: the handler's promise rejects and none
\* of its remaining lines run.  st is the response the caller gets.
Reject(c, op, st) ==
  /\ Commit(carts, arrs, objs,
            [procs EXCEPT ![c] = [IdleProc EXCEPT !.pc = "failed",
                                   !.user = procs[c].user]])
  /\ last' = Event(op, st)
  /\ UNCHANGED <<catalog, orders, ledger, reqs>>

FindByIdFail(c, st) ==
  /\ procs[c].pc = "findById"
  /\ Reject(c, "findById", st)

\* OrderLine with the price the catalog has when the line is recorded, not
\* the price of the product the lookup returned.
OrderLineCurrentPrice(item, product) ==
  [productId |-> item.productId, quantity |-> item.quantity,
   priceAtPurchase |-> catalog[item.productId]]

\* The line of the order for the entry looked up: lines 124-126.
OrderLine(item, product) ==
  [productId |-> item.productId, quantity |-> item.quantity,
   priceAtPurchase |-> product]

\* LineTotal without the quantity.
LineTotalUnit(item, product) == product

\* The amount line 125 adds to the total.
LineTotal(item, product) == product * item.quantity

\* The loop body after the await, lines 123-126, and the loop's next step.
CheckoutResume(c) ==
  LET p == procs[c]
      item == objs[p.item]
      p1 == IF p.product = NoProduct THEN p
            ELSE [p EXCEPT !.total = @ + LineTotal(item, p.product),
                           !.items = Append(@, OrderLine(item, p.product))]
  IN
  /\ p.pc = "resume"
  /\ Commit(carts, arrs, objs, [procs EXCEPT ![c] = LoopNext(p1)])
  /\ last' = NoResponse
  /\ UNCHANGED <<catalog, orders, ledger, reqs>>

\* The order store performs prisma.order.create, lines 129-137.
OrderCreateOk(c) ==
  /\ procs[c].pc = "create"
  /\ orders' = Append(orders, [userId |-> procs[c].user, total |-> procs[c].total,
                               items |-> procs[c].items])
  /\ procs' = [procs EXCEPT ![c].pc = "created", ![c].order = Len(orders) + 1]
  /\ last' = NoResponse
  /\ UNCHANGED <<catalog, carts, arrs, objs, ledger, reqs>>

OrderCreateFail(c, st) ==
  /\ procs[c].pc = "create"
  /\ Reject(c, "order.create", st)

\* CheckoutFinish without line 139.
CheckoutFinishKeepsCart(c) ==
  LET u == procs[c].user IN
  /\ procs[c].pc = "created"
  /\ Commit(carts, arrs, objs,
            [procs EXCEPT ![c] = [IdleProc EXCEPT !.pc = "done", !.user = u,
                                   !.order = procs[c].order]])
  /\ last' = Event("checkout", 200)
  /\ UNCHANGED <<catalog, orders, ledger, reqs>>

\* CheckoutFinish with carts = {} for line 139: every user's cart is dropped.
CheckoutFinishClearsAll(c) ==
  LET u == procs[c].user IN
  /\ procs[c].pc = "created"
  /\ Commit([v \in DOMAIN carts |-> 0], arrs, objs,
            [procs EXCEPT ![c] = [IdleProc EXCEPT !.pc = "done", !.user = u,
                                   !.order = procs[c].order]])
  /\ ledger' = [ledger EXCEPT ![u] =
                  [p \in ProductIds |-> [@[p] EXCEPT !.has = FALSE, !.sum = 0]]]
  /\ last' = Event("checkout", 200)
  /\ UNCHANGED <<catalog, orders, reqs>>

\* Lines 139-140: the cart is cleared and the order is sent.
CheckoutFinish(c) ==
  LET u == procs[c].user IN
  /\ procs[c].pc = "created"
  /\ Commit([carts EXCEPT ![u] = Len(arrs) + 1], Append(arrs, <<>>), objs,
            [procs EXCEPT ![c] = [IdleProc EXCEPT !.pc = "done", !.user = u,
                                   !.order = procs[c].order]])
  /\ ledger' = [ledger EXCEPT ![u] =
                  [p \in ProductIds |-> [@[p] EXCEPT !.has = FALSE, !.sum = 0]]]
  /\ last' = Event("checkout", 200)
  /\ UNCHANGED <<catalog, orders, reqs>>

Next ==
  \/ \E t \in Tokens : Unauthenticated(t)
  \/ \E t \in Tokens, p \in ProductIds, q \in Quantities : AddCart(t, p, q)
  \/ \E t \in Tokens, p \in ProductIds : RemoveCart(t, p)
  \/ \E t \in Tokens : CreateProduct(t)
  \/ \E t \in Tokens : UpdateProduct(t)
  \/ \E t \in Tokens : DeleteProduct(t)
  \/ \E t \in Tokens : CheckoutStart(t)
  \/ \E c \in Procs : FindByIdOk(c)
  \/ \E c \in Procs, st \in RejectOutcomes : FindByIdFail(c, st)
  \/ \E c \in Procs : CheckoutResume(c)
  \/ \E c \in Procs : OrderCreateOk(c)
  \/ \E c \in Procs, st \in RejectOutcomes : OrderCreateFail(c, st)
  \/ \E c \in Procs : CheckoutFinish(c)

Spec == Init /\ [][Next]_vars

\* ---------------------------------------------------------------- properties
\* The positions of product id p in a cart value, and the quantity there.
Places(s, p) == {i \in 1..Len(s) : s[i].productId = p}
QtyOf(s, p) == IF Places(s, p) = {} THEN 0 ELSE s[Min(Places(s, p))].quantity

\* Checkout c takes this step.
Moved(c) == procs'[c].pc # procs[c].pc

\* Checkout c is between its read of the cart (line 116) and its clear of
\* the cart (line 139).
Running(c) == procs[c].pc \in {"findById", "resume", "create", "created"}

CartsUnchanged == \A u \in UserIds : CartOf(u)' = CartOf(u)

C2_NoMutationDuringCheckout ==
  [][\A c \in Procs :
       Running(c) /\ last'.op \in {"addCart", "removeCart"}
         => CartOf(procs[c].user)' = CartOf(procs[c].user)]_vars

\* C3: the step on which a checkout fails leaves every cart with exactly
\* the entries it held, and a checkout step that changes a cart is taken
\* after that checkout's order was written.
C3_ClearOnlyAfterOrderWrite ==
  [][\A c \in Procs : Moved(c) =>
       /\ procs'[c].pc = "failed" => CartsUnchanged
       /\ ~CartsUnchanged =>
            /\ procs[c].pc = "created"
            /\ procs[c].order \in 1..Len(orders)
            /\ orders[procs[c].order].userId = procs[c].user]_vars

C3_Witness ==
  \E c \in Procs :
    /\ procs[c].pc = "failed"
    /\ last.op = "order.create"
    /\ CartOf(procs[c].user) # <<>>

\* C4: the step on which a store call of a checkout fails sends an error
\* response to the caller.
C4_FailureIsAnswered ==
  [][\A c \in Procs :
       Moved(c) /\ procs'[c].pc = "failed" => last'.status >= 500]_vars

\* C5: an add of quantity q for product p leaves the user's cart with one
\* entry for p, whose quantity is q more than the cart held for p before (q
\* when it held none); so two adds of q1 and q2 give one entry of q1+q2.
C5_AddsAccumulate ==
  [][\A t \in Tokens, p \in ProductIds, q \in Quantities :
       (/\ last' = Event("addCart", 200)
        /\ authenticate(t) # NoUser
        /\ ledger'[t.id][p].sum = ledger[t.id][p].sum + q
        /\ AddCart(t, p, q)) =>
         /\ Cardinality(Places(CartOf(t.id)', p)) = 1
         /\ QtyOf(CartOf(t.id)', p) = QtyOf(CartOf(t.id), p) + q]_vars

C5_Witness ==
  \E u \in UserIds, p \in ProductIds :
    /\ last = Event("addCart", 200)
    /\ ~ledger[u][p].removed
    /\ ledger[u][p].sum = 3
    /\ QtyOf(CartOf(u), p) = 3

\* C6: every cart holds at most one entry per product id.
C6_OneEntryPerProduct ==
  \A u \in UserIds, p \in ProductIds : Cardinality(Places(CartOf(u), p)) <= 1

C6_Witness ==
  \E u \in UserIds :
    /\ Len(CartOf(u)) = 2
    /\ \E i \in 1..2 : CartOf(u)[i].quantity > 2

\* C7: a product with adds since its last remove (a checkout's clear removes
\* every product) has one entry, whose quantity is the sum of those adds; a
\* product without such adds has no entry.
C7_QuantityIsSumOfAdds ==
  \A u \in UserIds, p \in ProductIds :
    IF ledger[u][p].has
    THEN /\ Cardinality(Places(CartOf(u), p)) = 1
         /\ QtyOf(CartOf(u), p) = ledger[u][p].sum
    ELSE Places(CartOf(u), p) = {}

C7_Witness ==
  \E u \in UserIds, p \in ProductIds :
    /\ ledger[u][p].removed
    /\ ledger[u][p].has
    /\ QtyOf(CartOf(u), p) = 2

\* C8: every entry of every cart has a quantity greater than zero.
C8_QuantityPositive ==
  \A u \in UserIds : \A i \in 1..Len(CartOf(u)) : CartOf(u)[i].quantity > 0

\* C9: the total of every order is the sum over its items of quantity
\* times price at purchase.
C9_TotalIsSumOfItems ==
  \A i \in 1..Len(orders) : orders[i].total = SumItems(orders[i].items)

C9_Witness ==
  \E i \in 1..Len(orders) :
    /\ Len(orders[i].items) = 2
    /\ orders[i].total > 2

\* C10: a checkout of a user whose cart has no entries is answered 400 and
\* changes neither the catalog, nor a cart, nor the orders, nor a checkout
\* in progress.
C10_EmptyCartCheckout ==
  [][\A t \in Tokens :
       (/\ authenticate(t) # NoUser
        /\ CartOf(authenticate(t).id) = <<>>
        /\ CheckoutStart(t))
         => /\ last' = Event("checkout", 400)
            /\ UNCHANGED <<catalog, carts, arrs, objs, procs, orders>>]_vars

C10_Witness ==
  /\ last = Event("checkout", 400)
  /\ \E u \in UserIds : carts[u] # 0 /\ CartOf(u) = <<>>

\* C11: the lookup of an entry yields the product the catalog has for the
\* entry's product id at that moment; when the checkout resumes, an entry
\* whose lookup found a product adds one item with the entry's product id,
\* the entry's quantity and the price of the product found, and an entry
\* whose lookup found nothing adds no item and does not fail the checkout;
\* the order persisted holds exactly the items recorded, and the finish
\* leaves the whole cart empty.
C11_ItemsAreResolvedEntries ==
  [][\A c \in Procs : Moved(c) =>
       /\ (procs[c].pc = "findById" /\ procs'[c].pc = "resume") =>
            procs'[c].product = catalog[objs[procs[c].item].productId]
       /\ procs[c].pc = "resume" =>
            /\ procs'[c].pc \in {"findById", "create"}
            /\ procs'[c].items =
                 IF procs[c].product = NoProduct THEN procs[c].items
                 ELSE Append(procs[c].items,
                             [productId |-> objs[procs[c].item].productId,
                              quantity |-> objs[procs[c].item].quantity,
                              priceAtPurchase |-> procs[c].product])
       /\ (procs[c].pc = "create" /\ procs'[c].pc = "created") =>
            /\ Len(orders') = Len(orders) + 1
            /\ orders'[Len(orders')].items = procs[c].items
       /\ procs'[c].pc = "done" => CartOf(procs[c].user)' = <<>>]_vars

\* An order is persisted with one item for a cart of two entries, one of
\* them for a product id the catalog does not have.
C11_Witness ==
  \E c \in Procs :
    /\ procs[c].pc = "created"
    /\ Len(CartOf(procs[c].user)) = 2
    /\ Len(orders[procs[c].order].items) = 1
    /\ \E i \in 1..2 : catalog[CartOf(procs[c].user)[i].productId] = NoProduct

\* C12: a create, update or delete of a product requested with a valid
\* token whose role is not admin is answered 403 and changes neither the
\* catalog, nor a cart, nor a checkout in progress, nor the orders.
C12_NonAdminForbidden ==
  [][\A t \in Tokens :
       (/\ t.kind = "valid"
        /\ t.role # "admin"
        /\ CreateProduct(t) \/ UpdateProduct(t) \/ DeleteProduct(t))
       => /\ last' = Event("adminOnly", 403)
          /\ UNCHANGED <<catalog, carts, arrs, objs, procs, orders>>]_vars

\* A customer's product mutation has been answered 403 with a product in
\* the catalog and an entry in the customer's cart.
C12_Witness ==
  /\ last = Event("adminOnly", 403)
  /\ CartOf("u1") # <<>>
  /\ \E p \in ProductIds : catalog[p] # NoProduct

\* C13: a request whose token is missing, malformed or expired runs none of
\* the handlers (cart add, cart remove, checkout, product create, update,
\* delete); it is answered 401 and changes neither a cart, nor a checkout in
\* progress, nor the orders, nor the catalog.
C13_Unauthorized ==
  [][\A t \in Tokens : t.kind # "valid" =>
       /\ ~ \E p \in ProductIds, q \in Quantities : AddCart(t, p, q)
       /\ ~ \E p \in ProductIds : RemoveCart(t, p)
       /\ ~ CheckoutStart(t)
       /\ ~ (CreateProduct(t) \/ UpdateProduct(t) \/ DeleteProduct(t))
       /\ Unauthenticated(t) =>
            /\ last' = Event("authenticate", 401)
            /\ UNCHANGED <<catalog, carts, arrs, objs, procs, orders>>]_vars

\* A request has been answered 401 while a cart holds an entry and a
\* checkout is in progress.
C13_Witness ==
  /\ last = Event("authenticate", 401)
  /\ \E u \in UserIds : CartOf(u) # <<>>
  /\ \E c \in Procs : Running(c)

\* C14: an update by an admin of an id that no product has (the step whose
\* response body is null) is answered as a not-found error, with a status
\* that is not a success, and leaves the catalog unchanged.
C14_UpdateMissingIsNotFound ==
  [][\A t \in Tokens :
       (/\ t.kind = "valid"
        /\ t.role = "admin"
        /\ last'.op = "null"
        /\ UpdateProduct(t))
       => /\ last'.status = 404
          /\ catalog' = catalog]_vars

\* The entry objects of the array a checkout iterates.
Iterated(c) == {arrs[procs[c].cart][i] : i \in 1..Len(arrs[procs[c].cart])}

\* C15: an add or a remove by user u leaves the cart of every other user
\* as it was, and so does every step of a checkout of u; the array a
\* checkout of u iterates is the one it read from carts[u], no cart of
\* another user is that array or shares an entry with it, every item
\* recorded is for the entry taken from that array, and the order
\* persisted carries u's user id.
C15_UsersIndependent ==
  [][/\ \A t \in Tokens, p \in ProductIds :
          (/\ t.kind = "valid"
           /\ \/ /\ last' = Event("addCart", 200)
                 /\ \E q \in Quantities :
                      /\ ledger'[t.id][p].sum = ledger[t.id][p].sum + q
                      /\ AddCart(t, p, q)
              \/ /\ last' = Event("removeCart", 200)
                 /\ ~ledger'[t.id][p].has
                 /\ RemoveCart(t, p))
          => \A v \in UserIds \ {t.id} : CartOf(v)' = CartOf(v)
     /\ \A c \in Procs :
          /\ Moved(c) =>
               /\ \A v \in UserIds \ {procs'[c].user} : CartOf(v)' = CartOf(v)
               /\ procs[c].pc = "idle" => procs'[c].cart = carts[procs'[c].user]
               /\ procs[c].pc = "resume" => procs[c].item \in Iterated(c)
               /\ (procs[c].pc = "create" /\ procs'[c].pc = "created") =>
                    orders'[Len(orders')].userId = procs[c].user
          /\ procs[c].pc \in {"findById", "resume"} =>
               \A v \in UserIds \ {procs[c].user} :
                 carts[v] # 0 =>
                   /\ carts[v] # procs[c].cart
                   /\ \A i \in 1..Len(arrs[carts[v]]) :
                        arrs[carts[v]][i] \notin Iterated(c)]_vars

\* A checkout of one user has finished and cleared that user's cart while
\* the other user's cart holds an entry.
C15_Witness ==
  \E c \in Procs, v \in UserIds :
    /\ procs[c].pc = "done"
    /\ last = Event("checkout", 200)
    /\ v # procs[c].user
    /\ CartOf(v) # <<>>
    /\ Len(orders) = 1
    /\ orders[1].userId = procs[c].user

\* C16: no step changes an order that is persisted: its user id, its total
\* and the product id, quantity and price at purchase of each of its items
\* stay as written, and no order is dropped.
C16_OrdersImmutable ==
  [][/\ Len(orders') >= Len(orders)
     /\ \A i \in 1..Len(orders) : orders'[i] = orders[i]]_vars

\* An order holds an item at a price the catalog no longer has for the
\* product, after an admin's update or delete.
C16_Witness ==
  /\ last.op \in {"updateProduct", "deleteProduct"}
  /\ \E i \in 1..Len(orders) :
       \E j \in 1..Len(orders[i].items) :
         orders[i].items[j].priceAtPurchase #
           catalog[orders[i].items[j].productId]

\* C17: a lookup that finds no product leaves the items and the total of
\* the checkout as they were and the checkout goes on; a checkout that has
\* recorded no item has total 0; so a checkout none of whose entries
\* resolved reaches the order write with no item and total 0, the order
\* persisted is exactly that, and its finish leaves the cart empty.
C17_NothingResolved ==
  [][\A c \in Procs :
       /\ procs[c].items = <<>> => procs[c].total = 0
       /\ Moved(c) =>
            /\ (procs[c].pc = "resume" /\ procs[c].product = NoProduct) =>
                 /\ procs'[c].pc \in {"findById", "create"}
                 /\ procs'[c].items = procs[c].items
                 /\ procs'[c].total = procs[c].total
            /\ (/\ procs[c].pc = "create"
                /\ procs[c].items = <<>>
                /\ procs'[c].pc = "created") =>
                 orders' = Append(orders, [userId |-> procs[c].user,
                                           total |-> 0, items |-> <<>>])
            /\ (/\ procs[c].pc = "created"
                /\ orders[procs[c].order].items = <<>>) =>
                 /\ procs'[c].pc = "done"
                 /\ last' = Event("checkout", 200)
                 /\ CartOf(procs[c].user)' = <<>>]_vars

\* A checkout has finished with an order of no item and total 0, and the
\* user's cart is empty.
C17_Witness ==
  \E c \in Procs :
    /\ procs[c].pc = "done"
    /\ last = Event("checkout", 200)
    /\ orders[procs[c].order].items = <<>>
    /\ orders[procs[c].order].total = 0
    /\ CartOf(procs[c].user) = <<>>

\* C18: a remove of product id p by a user is answered 200 and leaves the
\* user's cart as the list it was without the entries for p, in the same
\* order: the empty list when the user had no cart, the same list when it
\* held no entry for p, and otherwise the list less exactly that entry.
C18_RemoveNeverFails ==
  [][\A t \in Tokens, p \in ProductIds :
       (/\ t.kind = "valid"
        /\ last'.op = "removeCart"
        /\ ~ledger'[t.id][p].has
        /\ RemoveCart(t, p))
       => /\ last'.status = 200
          /\ CartOf(t.id)' =
               SelectSeq(CartOf(t.id), LAMBDA e : e.productId # p)]_vars

\* A remove has deleted the entry of one product from a cart of two
\* entries; the other entry is there.
C18_Witness ==
  \E u \in UserIds, p \in ProductIds :
    /\ last = Event("removeCart", 200)
    /\ ledger[u][p].removed
    /\ ~ledger[u][p].has
    /\ Len(CartOf(u)) = 1
    /\ CartOf(u)[1].productId # p

\* C19: two checkouts of one user that overlap (both have persisted their
\* order and neither has finished) have not purchased the same quantity
\* twice: where the user has removed no entry for product p and no
\* checkout of the user has cleared the cart, the quantities of p in the two
\* orders together are at most the quantity the user added for p.
C19_PurchasedOnce ==
  \A c, d \in Procs, p \in ProductIds :
    (/\ c # d
     /\ procs[c].pc = "created"
     /\ procs[d].pc = "created"
     /\ procs[c].user = procs[d].user
     /\ ~ledger[procs[c].user][p].removed
     /\ \A e \in Procs : ~(procs[e].pc = "done" /\ procs[e].user = procs[c].user))
    => QtyOf(orders[procs[c].order].items, p)
         + QtyOf(orders[procs[d].order].items, p)
       <= ledger[procs[c].user][p].sum

\* C20: every item a checkout records is for a product id the cart held
\* when the checkout read it (line 116), with the quantity the cart held
\* for it at that moment.
C20_OrderReflectsCartRead ==
  [][\A c \in Procs :
       (/\ Moved(c)
        /\ procs[c].pc = "resume"
        /\ Len(procs'[c].items) = Len(procs[c].items) + 1)
       => \E i \in 1..Len(procs[c].read) :
            /\ procs[c].read[i].productId =
                 procs'[c].items[Len(procs'[c].items)].productId
            /\ procs[c].read[i].quantity =
                 procs'[c].items[Len(procs'[c].items)].quantity]_vars

====
